---------------------------- MODULE Spec2Model ----------------------------
(***************************************************************************)
(* The poll loop of arbitrage_opportunities/arby.py (main, lines 121-220)  *)
(* and the signal functions it calls, as a state machine.                  *)
(*                                                                         *)
(* One iteration of `while True` is two steps: FetchPrices, the call       *)
(* asyncio.run(fetch_prices(symbol)) of line 140, and Process, lines       *)
(* 141-220 (clock read, appends, leadership, tallies, arbitrage report,    *)
(* sleep).  A fetch that raises ends the program: no try/except exists     *)
(* anywhere in the file.                                                   *)
(*                                                                         *)
(* Prices are integers; the float arithmetic of the code (percentages,     *)
(* means) is done exactly, on fractions num/den compared by                *)
(* cross-multiplication.  On the integer-valued prices used here the       *)
(* float evaluation of the code gives the same comparisons.                *)
(*                                                                         *)
(* The same program is explored under several input sets: Spec runs        *)
(* MaxCycles iterations on two price levels (deep enough to fill the       *)
(* histories and evict), SpecFine runs MaxFineCycles iterations on three   *)
(* price levels that put divergences below, exactly at and above the       *)
(* arbitrage threshold, SpecRaw runs MaxRawCycles iterations with an      *)
(* exchange that may also quote 0, and SpecClock runs MaxClockCycles       *)
(* iterations with a clock that may return the same instant twice.         *)
(* SpecAsync takes the fetch of line 140 apart into the start, the         *)
(* completion and the join of its three coroutines.  SpecSignals applies   *)
(* the signal functions to every buffer of up to MaxBuffer samples.        *)
(***************************************************************************)
EXTENDS Integers, Sequences, FiniteSets

(***************************************************************************)
(* Bounds of the model.                                                    *)
(***************************************************************************)
\* arby.py:16 sets HISTORY_SIZE = 20 (the watcher variants use 5); the
\* model runs the same code with a shorter window.
HISTORY_SIZE == 2

\* Number of loop iterations explored by Spec.
MaxCycles == 3

\* Number of loop iterations explored by SpecFine.
MaxFineCycles == 2

\* Number of loop iterations explored by SpecRaw.
MaxRawCycles == 2

\* Number of loop iterations explored by SpecAsync.
MaxAsyncCycles == 2

\* Number of loop iterations explored by SpecClock.
MaxClockCycles == 3

\* Longest buffer handed to the signal functions by SpecSignals.
MaxBuffer == 3

(***************************************************************************)
(* Program constants.                                                      *)
(***************************************************************************)
\* ARBITRAGE_THRESHOLD = 0.02 (percent), as the fraction 2/100.
ARBITRAGE_THRESHOLD_NUM == 2

ARBITRAGE_THRESHOLD_DEN == 100

\* The `* 100` of lines 154-156.
PERCENT == 100

\* TWAP_PERIOD = 60 (seconds).
TWAP_PERIOD == 60

\* TWAP_THRESHOLD = 0.01, as the fraction 1/100.
TWAP_THRESHOLD_NUM == 1

TWAP_THRESHOLD_DEN == 100

TWAP_THRESHOLD == [num |-> TWAP_THRESHOLD_NUM, den |-> TWAP_THRESHOLD_DEN]

\* The keys of `changes` (line 79) in insertion order, which is also the
\* order of the arguments of asyncio.gather (lines 64-68).
ExchangeOrder == <<"Binance", "Bybit", "Coinbase">>

Exchanges == {ExchangeOrder[i] : i \in 1..Len(ExchangeOrder)}

\* Prices an exchange may quote under Spec.
Prices == {10000, 10003}

\* Prices an exchange may quote under SpecFine: 10002 against 10000 is a
\* divergence of exactly 0.02 %, 10003 against 10002 is below it, 10003
\* against 10000 above.
FinePrices == {10000, 10002, 10003}

\* Prices an exchange may quote under SpecRaw: float(data['price']) is taken
\* as it comes, and "0.00000000" is a well-formed price string.
RawPrices == {0, 10000}

\* Seconds that pass between two reads of datetime.now() (line 141).
Ticks == {1}

\* The same for SpecClock: two reads of a clock of coarse resolution can
\* return the same instant.
CoarseTicks == {0, 1}

\* The price quoted in SpecClock.
ClockPrices == {10000}

(***************************************************************************)
(* Values.                                                                 *)
(***************************************************************************)
\* Python's None, and a float price p, as the value of a *_price variable.
None == <<>>

Some(p) == <<p>>

\* What one exchange does with one request of a cycle:
\*   "price"  a well-formed response carrying a price,
\*   "error"  a well-formed response without one (the else branches that
\*            print and return None, and the fall-through of get_bybit_price),
\*   "raise"  a network error or a malformed body: session.get, response.json
\*            or a subscript of `data` raises,
\*   "hang"   the exchange never answers.
Responses(quotes) ==
    [kind : {"price"}, value : quotes]
        \cup [kind : {"error", "raise", "hang"}, value : {0}]

\* The empty string of line 173.
NoOpportunity == [buy |-> "", sell |-> ""]

\* The locals of lines 154-156 before their first assignment.
NoDifferences == [i \in 1..3 |-> [num |-> 0, den |-> 1]]

\* The locals of lines 169-171 before their first assignment.
NoPercentage == [kind |-> "unassigned", num |-> 0, den |-> 1]

\* The locals of lines 184-194 before their first assignment.
NoTwap == [kind |-> "unassigned", num |-> 0, den |-> 1, direction |-> ""]

\* A coroutine of fetch_prices: not created, or awaited by gather.
NoTask == [state |-> "none", result |-> None]

PendingTask == [state |-> "pending", result |-> None]

\* `failure` while every fetch so far has returned.
NoFailure == [kind |-> "", exchange |-> ""]

Abs(x) == IF x < 0 THEN -x ELSE x

VARIABLES
    pc,                     \* "fetch" | "process" | "crashed" | "blocked"
    cycle,                  \* iterations of `while True` started
    failure,                \* the fetch that ended or blocked main, if any
    price,                  \* binance_price, bybit_price, coinbase_price
    current_time,           \* current_time (line 141), in seconds
    history,                \* binance_history, bybit_history, coinbase_history
    timestamps,             \* binance_timestamps, ...
    lead_count,             \* binance_lead_count, ...
    total_checks,
    leader,                 \* `leader` of line 158
    arbitrage_opportunity,  \* `arbitrage_opportunity` of lines 173-182
    log,                    \* lines of arbitrage_opportunities.log
    differences,            \* difference_percentage_binance_bybit, ...
    lead_percentage,        \* binance_lead_percentage, ...
    appended_at,            \* ghost: per exchange, the cycle time of every append
    tasks,                  \* the three coroutines gather is awaiting
    twap,                   \* (binance_twap, binance_twap_direction), ...
    twap_detected,          \* binance_twap_detected, ...
    twap_order_size,        \* binance_twap_order_size, ...
    appended                \* history variable: every price ever appended

vars == <<pc, cycle, failure, price, current_time, history, timestamps,
          lead_count, lead_percentage, total_checks, leader, arbitrage_opportunity, log, differences,
          tasks, twap, twap_detected, twap_order_size, appended,
                   appended_at>>

(***************************************************************************)
(* collections.deque(maxlen=HISTORY_SIZE).append                           *)
(***************************************************************************)
\* Mutant: a full deque drops the new sample instead of the oldest one.
deque_append_keeps_oldest(d, x) ==
    IF Len(d) < HISTORY_SIZE THEN Append(d, x) ELSE d

\* deque.appendleft: the new sample enters at the old end.
deque_appendleft(d, x) ==
    IF Len(d) < HISTORY_SIZE
    THEN <<x>> \o d
    ELSE <<x>> \o SubSeq(d, 1, Len(d) - 1)

deque_append(d, x) ==
    IF Len(d) < HISTORY_SIZE THEN Append(d, x) ELSE Append(Tail(d), x)

(***************************************************************************)
(* fetch_prices: the three get_*_price coroutines under asyncio.gather.    *)
(***************************************************************************)
\* The value a get_*_price coroutine returns for a response that does not
\* raise: float(...) of the price, or None.
get_price(r) == IF r.kind = "price" THEN Some(r.value) ELSE None

(***************************************************************************)
(* determine_leader                                                        *)
(***************************************************************************)
net_change(h) == h[Len(h)] - h[1]

\* min(changes, key=changes.get) in place of max.
min_key(changes) ==
    LET best(i) == \A j \in 1..Len(ExchangeOrder) :
                       changes[ExchangeOrder[i]] <= changes[ExchangeOrder[j]]
        first == CHOOSE i \in 1..Len(ExchangeOrder) :
                     best(i) /\ \A k \in 1..(i - 1) : ~best(k)
    IN  ExchangeOrder[first]

\* max(changes, key=changes.get): the first key, in insertion order, whose
\* value no other key's value exceeds.
max_key(changes) ==
    LET best(i) == \A j \in 1..Len(ExchangeOrder) :
                       changes[ExchangeOrder[j]] <= changes[ExchangeOrder[i]]
        first == CHOOSE i \in 1..Len(ExchangeOrder) :
                     best(i) /\ \A k \in 1..(i - 1) : ~best(k)
    IN  ExchangeOrder[first]

\* Mutant: the length test of the two-exchange variant (watcher.py:36), which
\* never looks at Coinbase's history.
determine_leader_two_lengths(h) ==
    IF Len(h["Binance"]) < HISTORY_SIZE \/ Len(h["Bybit"]) < HISTORY_SIZE
    THEN "Undetermined"
    ELSE LET changes == [e \in Exchanges |-> net_change(h[e])]
             l == max_key(changes)
         IN  IF changes[l] = 0 THEN "Undetermined" ELSE l

\* Mutant: lines 82-83 left out, the maximum is returned whatever it is.
determine_leader_no_zero_test(h) ==
    IF \E e \in Exchanges : Len(h[e]) < HISTORY_SIZE
    THEN "Undetermined"
    ELSE max_key([e \in Exchanges |-> net_change(h[e])])

determine_leader(h) ==
    IF \E e \in Exchanges : Len(h[e]) < HISTORY_SIZE
    THEN "Undetermined"
    ELSE LET changes == [e \in Exchanges |-> net_change(h[e])]
             l == max_key(changes)
         IN  IF changes[l] = 0 THEN "Undetermined" ELSE l

(***************************************************************************)
(* Divergence and the arbitrage report (lines 154-156, 173-182)            *)
(***************************************************************************)
\* ((pA - pB) / pB) * 100 as the fraction num/den, den = pB > 0.
\* The difference normalised by the first price of the pair.
difference_percentage_by_first(pA, pB) ==
    [num |-> (pA - pB) * PERCENT, den |-> pA]

difference_percentage(pA, pB) == [num |-> (pA - pB) * PERCENT, den |-> pB]

\* Mutant: abs(d) >= ARBITRAGE_THRESHOLD.
exceeds_threshold_inclusive(d) ==
    Abs(d.num) * ARBITRAGE_THRESHOLD_DEN >= ARBITRAGE_THRESHOLD_NUM * d.den

\* abs(d) > ARBITRAGE_THRESHOLD
exceeds_threshold(d) ==
    Abs(d.num) * ARBITRAGE_THRESHOLD_DEN > ARBITRAGE_THRESHOLD_NUM * d.den

\* d > 0
is_positive(d) == d.num > 0

\* Mutant: the two sides of the report exchanged.
opportunity_swapped(a, b, d) ==
    IF is_positive(d) THEN [buy |-> a, sell |-> b] ELSE [buy |-> b, sell |-> a]

\* "Buy on {B if d > 0 else A} and sell on {A if d > 0 else B}"
opportunity(a, b, d) ==
    IF is_positive(d) THEN [buy |-> b, sell |-> a] ELSE [buy |-> a, sell |-> b]

\* Lines 154-156, in that order.
differences_of(p) ==
    <<difference_percentage(p["Binance"][1], p["Bybit"][1]),
      difference_percentage(p["Binance"][1], p["Coinbase"][1]),
      difference_percentage(p["Bybit"][1], p["Coinbase"][1])>>

find_arbitrage(p) ==
    LET binance_bybit == differences_of(p)[1]
        binance_coinbase == differences_of(p)[2]
        bybit_coinbase == differences_of(p)[3]
    IN  IF exceeds_threshold(binance_bybit)
        THEN opportunity("Binance", "Bybit", binance_bybit)
        ELSE IF exceeds_threshold(binance_coinbase)
        THEN opportunity("Binance", "Coinbase", binance_coinbase)
        ELSE IF exceeds_threshold(bybit_coinbase)
        THEN opportunity("Bybit", "Coinbase", bybit_coinbase)
        ELSE NoOpportunity

\* log_arbitrage_opportunity is called exactly where arbitrage_opportunity is
\* assigned a non-empty string.
log_arbitrage_opportunity(l, opp) ==
    IF opp = NoOpportunity THEN l ELSE Append(l, opp)

all_present(p) == \A e \in Exchanges : p[e] # None

(***************************************************************************)
(* calculate_twap, detect_twap_pattern, estimate_twap_order_size           *)
(***************************************************************************)
RECURSIVE sum(_)
sum(s) == IF s = <<>> THEN 0 ELSE Head(s) + sum(Tail(s))

\* [price for price, timestamp in zip(prices, timestamps)
\*        if timestamp >= start_time], from the i-th pair on.
RECURSIVE relevant_prices(_, _, _, _)
relevant_prices(prices, times, start_time, i) ==
    IF i > Len(prices) \/ i > Len(times)
    THEN <<>>
    ELSE (IF times[i] >= start_time THEN <<prices[i]>> ELSE <<>>)
             \o relevant_prices(prices, times, start_time, i + 1)

\* calculate_twap with `prices[-1] >= twap` as the test for "Ask".
calculate_twap_ask_on_equal(prices, times, period) ==
    IF Len(times) = 0
    THEN [kind |-> "IndexError", num |-> 0, den |-> 1, direction |-> ""]
    ELSE LET relevant ==
                 relevant_prices(prices, times, times[Len(times)] - period, 1)
         IN  IF relevant = <<>>
             THEN [kind |-> "None", num |-> 0, den |-> 1, direction |-> ""]
             ELSE [kind |-> "ok",
                   num |-> sum(relevant),
                   den |-> Len(relevant),
                   direction |->
                       IF prices[Len(prices)] * Len(relevant) >= sum(relevant)
                       THEN "Ask"
                       ELSE "Bid"]

\* The pair calculate_twap returns, the TWAP as the fraction num/den:
\*   "ok"          (twap, direction),
\*   "None"        (None, None),
\*   "IndexError"  timestamps[-1] of line 91 raised on an empty list.
calculate_twap(prices, times, period) ==
    IF Len(times) = 0
    THEN [kind |-> "IndexError", num |-> 0, den |-> 1, direction |-> ""]
    ELSE LET end_time == times[Len(times)]
             start_time == end_time - period
             relevant == relevant_prices(prices, times, start_time, 1)
         IN  IF relevant = <<>>
             THEN [kind |-> "None", num |-> 0, den |-> 1, direction |-> ""]
             ELSE [kind |-> "ok",
                   num |-> sum(relevant),
                   den |-> Len(relevant),
                   direction |->
                       IF prices[Len(prices)] * Len(relevant) > sum(relevant)
                       THEN "Ask"
                       ELSE "Bid"]

\* prices[-period:], period >= 1.
recent(prices, period) ==
    IF Len(prices) <= period
    THEN prices
    ELSE SubSeq(prices, Len(prices) - period + 1, Len(prices))

\* [abs(p[i] - p[i - 1]) for i in range(1, len(p))]
price_changes(p) == [i \in 1..(Len(p) - 1) |-> Abs(p[i + 1] - p[i])]

\* detect_twap_pattern with `average_change < threshold`.
detect_twap_pattern_strict(prices, period, threshold) ==
    IF Len(prices) < period
    THEN FALSE
    ELSE LET changes == price_changes(recent(prices, period))
         IN  sum(changes) * threshold.den < threshold.num * Len(changes)

\* detect_twap_pattern averaging over the whole list, not prices[-period:].
detect_twap_pattern_whole_list(prices, period, threshold) ==
    IF Len(prices) < period
    THEN FALSE
    ELSE LET changes == price_changes(prices)
         IN  sum(changes) * threshold.den <= threshold.num * Len(changes)

\* detect_twap_pattern for period >= 2 (with period = 1 the list of changes
\* is empty and line 108 divides by zero); threshold is a fraction.
detect_twap_pattern(prices, period, threshold) ==
    IF Len(prices) < period
    THEN FALSE
    ELSE LET changes == price_changes(recent(prices, period))
         IN  sum(changes) * threshold.den <= threshold.num * Len(changes)

\* estimate_twap_order_size: None, or average_change * len(prices) as the
\* fraction num/den.
estimate_twap_order_size(prices) ==
    IF Len(prices) < 2
    THEN None
    ELSE LET changes == price_changes(prices)
         IN  Some([num |-> sum(changes) * Len(prices), den |-> Len(changes)])

\* Lines 154-156 divide by bybit_price and by coinbase_price: a float
\* division by 0.0 raises ZeroDivisionError.
division_by_zero(p) ==
    all_present(p) /\ (p["Bybit"][1] = 0 \/ p["Coinbase"][1] = 0)

(***************************************************************************)
(* The state after construction (lines 126-137).                           *)
(***************************************************************************)
Init ==
    /\ pc = "fetch"
    /\ cycle = 0
    /\ failure = NoFailure
    /\ price = [e \in Exchanges |-> None]
    /\ current_time = 0
    /\ history = [e \in Exchanges |-> <<>>]
    /\ timestamps = [e \in Exchanges |-> <<>>]
    /\ lead_count = [e \in Exchanges |-> 0]
    /\ total_checks = 0
    /\ leader = "Unassigned"
    /\ arbitrage_opportunity = NoOpportunity
    /\ log = <<>>
    /\ differences = NoDifferences
    /\ lead_percentage = [e \in Exchanges |-> NoPercentage]
    /\ tasks = [e \in Exchanges |-> NoTask]
    /\ twap = [e \in Exchanges |-> NoTwap]
    /\ twap_detected = [e \in Exchanges |-> FALSE]
    /\ twap_order_size = [e \in Exchanges |-> None]
    /\ appended = [e \in Exchanges |-> <<>>]
    /\ appended_at = [e \in Exchanges |-> <<>>]

(***************************************************************************)
(* Line 140: asyncio.run(fetch_prices(symbol)).                            *)
(*                                                                         *)
(* gather has no return_exceptions and nothing catches: the first          *)
(* exception raised by a coroutine leaves gather, asyncio.run and main.    *)
(* No timeout is passed to the session or to the requests, so a request    *)
(* that is never answered either waits for ever or, when the installed     *)
(* aiohttp applies a default total timeout, raises a timeout error, which  *)
(* leaves main in the same way.                                            *)
(***************************************************************************)
Fetch(quotes, limit) ==
    /\ pc = "fetch"
    /\ cycle < limit
    /\ cycle' = cycle + 1
    /\ \E r \in [Exchanges -> Responses(quotes)] :
          IF \E e \in Exchanges : r[e].kind = "raise"
          THEN /\ pc' = "crashed"
               /\ \E e \in Exchanges :
                     /\ r[e].kind = "raise"
                     /\ failure' = [kind |-> "raised", exchange |-> e]
               /\ price' = price
          ELSE IF \E e \in Exchanges : r[e].kind = "hang"
          THEN /\ \E e \in Exchanges :
                     /\ r[e].kind = "hang"
                     /\ \/ /\ pc' = "blocked"
                           /\ failure' = [kind |-> "hang", exchange |-> e]
                        \/ /\ pc' = "crashed"
                           /\ failure' = [kind |-> "timeout", exchange |-> e]
               /\ price' = price
          ELSE /\ pc' = "process"
               /\ failure' = failure
               /\ price' = [e \in Exchanges |-> get_price(r[e])]
    /\ UNCHANGED <<current_time, history, timestamps, lead_count, lead_percentage, total_checks,
                   leader, arbitrage_opportunity, log, differences, tasks, twap,
                   twap_detected, twap_order_size, appended,
                   appended_at>>

FetchPrices == Fetch(Prices, MaxCycles)

FetchFinePrices == Fetch(FinePrices, MaxFineCycles)

FetchRawPrices == Fetch(RawPrices, MaxRawCycles)

(***************************************************************************)
(* Lines 141-220: the rest of the loop body.                               *)
(***************************************************************************)
\* Lines 143-151: one exchange's deque after the three `is not None` tests.
append_if_present(d, p, x) == IF p # None THEN deque_append(d, x) ELSE d

\* Mutant: the chain of the two-exchange variant (watcher.py:68-71), without
\* the Coinbase branch.
count_lead_two(counts, l) ==
    [e \in Exchanges |->
        IF l = e /\ e # "Coinbase" THEN counts[e] + 1 ELSE counts[e]]

\* Lines 160-165: the if/elif chain over `leader`.
count_lead(counts, l) ==
    [e \in Exchanges |-> IF l = e THEN counts[e] + 1 ELSE counts[e]]

\* Lines 184-194: the TWAP calls on list(...) copies of the deques h and ts.
twap_signals(h, ts) ==
    /\ twap' = [e \in Exchanges |-> calculate_twap(h[e], ts[e], TWAP_PERIOD)]
    /\ twap_detected' =
           [e \in Exchanges |->
               detect_twap_pattern(h[e], HISTORY_SIZE, TWAP_THRESHOLD)]
    /\ twap_order_size' =
           [e \in Exchanges |-> estimate_twap_order_size(h[e])]

\* Lines 169-171: (count / total) * 100 as the fraction num/den, or the
\* exception the division raises.
percentage(count, total) ==
    IF total = 0
    THEN [kind |-> "ZeroDivisionError", num |-> 0, den |-> 1]
    ELSE [kind |-> "ok", num |-> count * PERCENT, den |-> total]

\* The same branch with lines 169-171 ahead of `total_checks += 1`.
Evaluate_percentages_first ==
    /\ leader' = determine_leader(history')
    /\ lead_count' = count_lead(lead_count, leader')
    /\ lead_percentage' =
           [e \in Exchanges |-> percentage(lead_count'[e], total_checks)]
    /\ total_checks' = total_checks + 1
    /\ differences' = differences_of(price)
    /\ arbitrage_opportunity' = find_arbitrage(price)
    /\ log' = log_arbitrage_opportunity(log, arbitrage_opportunity')
    /\ twap_signals(history', timestamps')

\* The same branch with its computations placed ahead of the appends of
\* lines 143-151: they see the deques as the previous cycle left them.
Evaluate_before_append ==
    /\ leader' = determine_leader(history)
    /\ lead_count' = count_lead(lead_count, leader')
    /\ total_checks' = total_checks + 1
    /\ lead_percentage' =
           [e \in Exchanges |-> percentage(lead_count'[e], total_checks')]
    /\ differences' = differences_of(price)
    /\ arbitrage_opportunity' = find_arbitrage(price)
    /\ log' = log_arbitrage_opportunity(log, arbitrage_opportunity')
    /\ twap_signals(history, timestamps)

\* Lines 154-215: the branch taken when all three prices are present.
Evaluate ==
    /\ leader' = determine_leader(history')
    /\ lead_count' = count_lead(lead_count, leader')
    /\ total_checks' = total_checks + 1
    /\ lead_percentage' =
           [e \in Exchanges |-> percentage(lead_count'[e], total_checks')]
    /\ differences' = differences_of(price)
    /\ arbitrage_opportunity' = find_arbitrage(price)
    /\ log' = log_arbitrage_opportunity(log, arbitrage_opportunity')
    /\ twap_signals(history', timestamps')

\* Mutant: total_checks += 1 outside the `if`, as in watcher.py:73.
Skip_counting ==
    /\ total_checks' = total_checks + 1
    /\ UNCHANGED <<leader, lead_count, lead_percentage, arbitrage_opportunity, log, differences, twap,
                   twap_detected, twap_order_size>>

\* Lines 217-218: the else branch only prints.
Skip ==
    UNCHANGED <<leader, lead_count, lead_percentage, total_checks, arbitrage_opportunity, log, differences,
                twap, twap_detected, twap_order_size>>

\* An exception raised by lines 154-156 leaves main: nothing catches it.
Abort ==
    /\ pc' = "crashed"
    /\ failure' = [kind |-> "ZeroDivisionError", exchange |-> ""]
    /\ UNCHANGED <<leader, lead_count, lead_percentage, total_checks, arbitrage_opportunity, log, differences,
                   twap, twap_detected, twap_order_size>>

\* The same lines with the timestamp appends outside the `is not None`
\* tests, as the appends of watcher.py:62-63 are.
Advance_stamping_all(ticks) ==
    /\ pc = "process"
    /\ \E d \in ticks : current_time' = current_time + d
    /\ history' = [e \in Exchanges |->
                      append_if_present(history[e], price[e],
                                        IF price[e] # None THEN price[e][1]
                                                           ELSE 0)]
    /\ timestamps' = [e \in Exchanges |->
                         deque_append(timestamps[e], current_time')]
    /\ appended' = [e \in Exchanges |->
                       IF price[e] # None
                       THEN Append(appended[e], price[e][1])
                       ELSE appended[e]]
    /\ appended_at' = [e \in Exchanges |->
                          IF price[e] # None
                          THEN Append(appended_at[e], current_time')
                          ELSE appended_at[e]]
    /\ IF division_by_zero(price)
       THEN Abort
       ELSE /\ IF all_present(price) THEN Evaluate ELSE Skip
            /\ IF \E e \in Exchanges :
                     lead_percentage'[e].kind = "ZeroDivisionError"
               THEN /\ pc' = "crashed"
                    /\ failure' = [kind |-> "ZeroDivisionError", exchange |-> ""]
               ELSE IF \E e \in Exchanges : twap'[e].kind = "IndexError"
               THEN /\ pc' = "crashed"
                    /\ failure' = [kind |-> "IndexError", exchange |-> ""]
               ELSE /\ pc' = "fetch"
                    /\ failure' = failure
    /\ UNCHANGED <<cycle, price, tasks>>

\* Lines 141-218, with datetime.now() ahead of its last reading by one of
\* `ticks`.
Advance(ticks) ==
    /\ pc = "process"
    /\ \E d \in ticks : current_time' = current_time + d
    /\ history' = [e \in Exchanges |->
                      append_if_present(history[e], price[e],
                                        IF price[e] # None THEN price[e][1]
                                                           ELSE 0)]
    /\ timestamps' = [e \in Exchanges |->
                         append_if_present(timestamps[e], price[e],
                                           current_time')]
    /\ appended' = [e \in Exchanges |->
                       IF price[e] # None
                       THEN Append(appended[e], price[e][1])
                       ELSE appended[e]]
    /\ appended_at' = [e \in Exchanges |->
                          IF price[e] # None
                          THEN Append(appended_at[e], current_time')
                          ELSE appended_at[e]]
    /\ IF division_by_zero(price)
       THEN Abort
       ELSE /\ IF all_present(price) THEN Evaluate ELSE Skip
            /\ IF \E e \in Exchanges :
                     lead_percentage'[e].kind = "ZeroDivisionError"
               THEN /\ pc' = "crashed"
                    /\ failure' = [kind |-> "ZeroDivisionError", exchange |-> ""]
               ELSE IF \E e \in Exchanges : twap'[e].kind = "IndexError"
               THEN /\ pc' = "crashed"
                    /\ failure' = [kind |-> "IndexError", exchange |-> ""]
               ELSE /\ pc' = "fetch"
                    /\ failure' = failure
    /\ UNCHANGED <<cycle, price, tasks>>

Process == Advance(Ticks)

ProcessCoarseClock == Advance(CoarseTicks)

FetchClockPrices == Fetch(ClockPrices, MaxClockCycles)

Next == FetchPrices \/ Process

Spec == Init /\ [][Next]_vars

NextFine == FetchFinePrices \/ Process

SpecFine == Init /\ [][NextFine]_vars

NextRaw == FetchRawPrices \/ Process

SpecRaw == Init /\ [][NextRaw]_vars

NextClock == FetchClockPrices \/ ProcessCoarseClock

SpecClock == Init /\ [][NextClock]_vars

(***************************************************************************)
(* Line 140 step by step                                                   *)
(*                                                                         *)
(* SpecAsync splits asyncio.run(fetch_prices(symbol)) into the creation of *)
(* the three coroutines by gather, the completion of each of them in any   *)
(* order, and the return of gather to main.  asyncio.run does not return   *)
(* before fetch_prices has, and cancels whatever is left on its event loop *)
(* when fetch_prices leaves with an exception.                             *)
(***************************************************************************)
\* Lines 64-68: gather schedules the three get_*_price coroutines.
StartFetch ==
    /\ pc = "fetch"
    /\ cycle < MaxAsyncCycles
    /\ cycle' = cycle + 1
    /\ pc' = "gather"
    /\ tasks' = [e \in Exchanges |-> PendingTask]
    /\ UNCHANGED <<failure, price, current_time, history, timestamps,
                   lead_count, lead_percentage, total_checks, leader, arbitrage_opportunity,
                   log, differences, twap, twap_detected, twap_order_size, appended,
                   appended_at>>

\* What asyncio.run leaves of the coroutines when an exception ends it.
cancel_all(t) ==
    [e \in Exchanges |->
        IF t[e].state = "pending"
        THEN [state |-> "cancelled", result |-> None]
        ELSE t[e]]

\* Lines 31-60: the coroutine of exchange e is answered, fails, or is found
\* never to be answered.
Respond(e) ==
    /\ pc = "gather"
    /\ tasks[e].state = "pending"
    /\ \E r \in Responses(Prices) :
          \/ /\ r.kind \in {"price", "error"}
             /\ tasks' = [tasks EXCEPT
                             ![e] = [state |-> "returned", result |-> get_price(r)]]
             /\ UNCHANGED <<pc, failure>>
          \/ /\ r.kind = "raise"
             /\ tasks' = cancel_all(tasks)
             /\ pc' = "crashed"
             /\ failure' = [kind |-> "raised", exchange |-> e]
          \/ /\ r.kind = "hang"
             /\ \/ /\ tasks' = tasks
                   /\ pc' = "blocked"
                   /\ failure' = [kind |-> "hang", exchange |-> e]
                \/ /\ tasks' = cancel_all(tasks)
                   /\ pc' = "crashed"
                   /\ failure' = [kind |-> "timeout", exchange |-> e]
    /\ UNCHANGED <<cycle, price, current_time, history, timestamps, lead_count, lead_percentage,
                   total_checks, leader, arbitrage_opportunity, log, differences, twap,
                   twap_detected, twap_order_size, appended,
                   appended_at>>

\* A fetch_prices that returns as soon as one coroutine has (asyncio.wait
\* with FIRST_COMPLETED in place of gather).
Join_first_completed ==
    /\ pc = "gather"
    /\ \E e \in Exchanges : tasks[e].state = "returned"
    /\ price' = [e \in Exchanges |-> tasks[e].result]
    /\ tasks' = [e \in Exchanges |->
                    IF tasks[e].state = "returned" THEN NoTask ELSE tasks[e]]
    /\ pc' = "process"
    /\ UNCHANGED <<cycle, failure, current_time, history, timestamps,
                   lead_count, lead_percentage, total_checks, leader, arbitrage_opportunity,
                   log, differences, twap, twap_detected, twap_order_size, appended,
                   appended_at>>

\* Lines 64-69 and 140: gather returns the three results once every
\* coroutine has returned; main unpacks them.
Join ==
    /\ pc = "gather"
    /\ \A e \in Exchanges : tasks[e].state = "returned"
    /\ price' = [e \in Exchanges |-> tasks[e].result]
    /\ tasks' = [e \in Exchanges |-> NoTask]
    /\ pc' = "process"
    /\ UNCHANGED <<cycle, failure, current_time, history, timestamps,
                   lead_count, lead_percentage, total_checks, leader, arbitrage_opportunity,
                   log, differences, twap, twap_detected, twap_order_size, appended,
                   appended_at>>

NextAsync == StartFetch \/ (\E e \in Exchanges : Respond(e)) \/ Join \/ Process

SpecAsync == Init /\ [][NextAsync]_vars

(***************************************************************************)
(* The signal functions on arbitrary buffers                               *)
(*                                                                         *)
(* SpecSignals starts with a price list and a timestamp list of the same   *)
(* length in every history, as lines 143-151 leave them, and applies the   *)
(* functions called by lines 158 and 184-194 to them once.                 *)
(***************************************************************************)
\* Seconds between two consecutive samples: inside the TWAP window, on its
\* edge, and outside it.
Gaps == {1, TWAP_PERIOD, TWAP_PERIOD + 1}

\* The timestamps of samples taken gaps[1], gaps[2], ... seconds apart.
times_of(gaps) == [i \in 1..Len(gaps) |-> sum(SubSeq(gaps, 1, i))]

InitSignals ==
    /\ pc = "signals"
    /\ cycle = 0
    /\ failure = NoFailure
    /\ price = [e \in Exchanges |-> None]
    /\ \E n \in 0..MaxBuffer :
         \E prices \in [1..n -> FinePrices], gaps \in [1..n -> Gaps] :
            /\ history = [e \in Exchanges |-> prices]
            /\ timestamps = [e \in Exchanges |-> times_of(gaps)]
            /\ appended = [e \in Exchanges |-> prices]
            /\ appended_at = [e \in Exchanges |-> times_of(gaps)]
            /\ current_time = sum(gaps)
    /\ lead_count = [e \in Exchanges |-> 0]
    /\ total_checks = 0
    /\ leader = "Unassigned"
    /\ arbitrage_opportunity = NoOpportunity
    /\ log = <<>>
    /\ differences = NoDifferences
    /\ lead_percentage = [e \in Exchanges |-> NoPercentage]
    /\ tasks = [e \in Exchanges |-> NoTask]
    /\ twap = [e \in Exchanges |-> NoTwap]
    /\ twap_detected = [e \in Exchanges |-> FALSE]
    /\ twap_order_size = [e \in Exchanges |-> None]

\* The calls with a signal function that empties the list it is handed.
Signals_draining ==
    /\ pc = "signals"
    /\ leader' = determine_leader(history)
    /\ twap_signals(history, timestamps)
    /\ pc' = IF \E e \in Exchanges : twap'[e].kind = "IndexError"
             THEN "crashed"
             ELSE "done"
    /\ history' = [e \in Exchanges |-> <<>>]
    /\ UNCHANGED <<cycle, failure, price, current_time, timestamps,
                   lead_count, lead_percentage, total_checks, arbitrage_opportunity, log, differences,
                   tasks, appended,
                   appended_at>>

\* Lines 158 and 184-194: determine_leader on the deques, the TWAP functions
\* on list(...) copies of them.
Signals ==
    /\ pc = "signals"
    /\ leader' = determine_leader(history)
    /\ twap_signals(history, timestamps)
    /\ pc' = IF \E e \in Exchanges : twap'[e].kind = "IndexError"
             THEN "crashed"
             ELSE "done"
    /\ UNCHANGED <<cycle, failure, price, current_time, history, timestamps,
                   lead_count, lead_percentage, total_checks, arbitrage_opportunity, log, differences,
                   tasks, appended,
                   appended_at>>

NextSignals == Signals

SpecSignals == InitSignals /\ [][NextSignals]_vars

(***************************************************************************)
(* Vocabulary of the properties.                                           *)
(***************************************************************************)
\* The last n elements of s (all of s when it is shorter).
LastN(s, n) == IF Len(s) <= n THEN s ELSE SubSeq(s, Len(s) - n + 1, Len(s))

\* The loop is between two iterations and the last one was complete: the
\* current leader, report and tallies were computed from `price` and from
\* the histories as they are now.
Evaluated == pc = "fetch" /\ cycle > 0 /\ all_present(price)

\* The step about to be taken is the body of a complete (incomplete) cycle.
CompleteCycle == pc = "process" /\ all_present(price)

IncompleteCycle == pc = "process" /\ ~all_present(price)

AllFull(h) == \A e \in Exchanges : Len(h[e]) = HISTORY_SIZE

MaxNetChange(h) ==
    CHOOSE m \in {net_change(h[e]) : e \in Exchanges} :
        \A e \in Exchanges : net_change(h[e]) <= m

\* Two or more exchanges attain the maximum net change.
TiedForMax(h) ==
    Cardinality({e \in Exchanges : net_change(h[e]) = MaxNetChange(h)}) >= 2

\* abs((pA - pB) / pB * 100) > 0.02, on the prices themselves.
StrictlyExceeds(pA, pB) ==
    Abs(pA - pB) * PERCENT * ARBITRAGE_THRESHOLD_DEN
        > ARBITRAGE_THRESHOLD_NUM * pB

\* The pairs in the order Binance-Bybit, Binance-Coinbase, Bybit-Coinbase.
PairOrder ==
    << <<"Binance", "Bybit">>, <<"Binance", "Coinbase">>,
       <<"Bybit", "Coinbase">> >>

Breaches(p, i) == StrictlyExceeds(p[PairOrder[i][1]][1], p[PairOrder[i][2]][1])

(***************************************************************************)
(* C1.  After any sequence of polling cycles, each exchange's price        *)
(* history holds at most HISTORY_SIZE samples, and it is exactly the most  *)
(* recent HISTORY_SIZE prices appended for that exchange, in arrival       *)
(* order (all of them while fewer have been appended).                     *)
(***************************************************************************)
C1_HistoryIsMostRecent ==
    \A e \in Exchanges :
        /\ Len(history[e]) <= HISTORY_SIZE
        /\ history[e] = LastN(appended[e], HISTORY_SIZE)

\* An exchange has had more than HISTORY_SIZE prices appended, the evicted
\* oldest one differs from what is kept, and another exchange, having failed
\* in some cycle, has had fewer appended.
C1_Witness ==
    \E e, f \in Exchanges :
        /\ Len(appended[e]) > HISTORY_SIZE
        /\ appended[e][1] # history[e][1]
        /\ Len(appended[f]) < Len(appended[e])

(***************************************************************************)
(* C2.  In a cycle whose fetch returned with at least one price missing    *)
(* (None), every exchange with a price has it appended to its history,     *)
(* the history of every exchange without one is unchanged, the leader,     *)
(* the lead counts, total_checks, the report and the opportunity log are   *)
(* unchanged, and the loop goes on to the next fetch.                      *)
(***************************************************************************)
C2_IncompleteCycle ==
    [][IncompleteCycle =>
          /\ \A e \in Exchanges :
                IF price[e] # None
                THEN /\ appended'[e] = Append(appended[e], price[e][1])
                     /\ history'[e] = LastN(appended'[e], HISTORY_SIZE)
                     /\ Len(timestamps'[e]) = Len(history'[e])
                ELSE /\ appended'[e] = appended[e]
                     /\ history'[e] = history[e]
                     /\ timestamps'[e] = timestamps[e]
          /\ lead_count' = lead_count
          /\ total_checks' = total_checks
          /\ leader' = leader
          /\ arbitrage_opportunity' = arbitrage_opportunity
          /\ log' = log
          /\ pc' = "fetch"]_vars

\* After some complete cycles with a logged opportunity, a cycle in which
\* Coinbase returned None and the other two a price has been processed.
C2_Witness ==
    /\ pc = "fetch"
    /\ cycle > 1
    /\ price["Coinbase"] = None
    /\ price["Binance"] # None
    /\ price["Bybit"] # None
    /\ Len(appended["Coinbase"]) < Len(appended["Binance"])
    /\ Len(appended["Coinbase"]) < Len(appended["Bybit"])
    /\ total_checks > 0
    /\ Len(log) > 0

(***************************************************************************)
(* C3.  Whatever one exchange's fetch does in a cycle (a price, an error   *)
(* response, a network error, a malformed response that makes the fetch    *)
(* raise), no exception leaves the cycle: the program is never ended by a  *)
(* fetch that raised.                                                      *)
(***************************************************************************)
C3_NoExceptionLeavesCycle == ~(pc = "crashed" /\ failure.kind = "raised")

(***************************************************************************)
(* C4.  An exchange that never responds is treated as failed for the       *)
(* cycle: the program is never left waiting on it for ever, and never      *)
(* ended by its timeout.                                                   *)
(***************************************************************************)
C4_HangIsAFailedFetch ==
    /\ ~(pc = "blocked" /\ failure.kind = "hang")
    /\ ~(pc = "crashed" /\ failure.kind = "timeout")

(***************************************************************************)
(* C5.  While at least one exchange's history holds fewer than             *)
(* HISTORY_SIZE samples, determine_leader has only ever returned           *)
(* "Undetermined" and no lead count has been incremented.                  *)
(***************************************************************************)
C5_UndeterminedUntilFull ==
    (\E e \in Exchanges : Len(history[e]) < HISTORY_SIZE) =>
        /\ leader \in {"Unassigned", "Undetermined"}
        /\ \A e \in Exchanges : lead_count[e] = 0

\* A complete cycle was evaluated while Coinbase's history was short of
\* HISTORY_SIZE and the other two were full, one of them with the strictly
\* greatest, positive net change.
C5_Witness ==
    /\ Evaluated
    /\ Len(history["Coinbase"]) < HISTORY_SIZE
    /\ Len(history["Binance"]) = HISTORY_SIZE
    /\ Len(history["Bybit"]) = HISTORY_SIZE
    /\ net_change(history["Bybit"]) > 0
    /\ net_change(history["Bybit"]) > net_change(history["Binance"])
    /\ net_change(history["Bybit"]) > net_change(history["Coinbase"])
    /\ leader = "Undetermined"

(***************************************************************************)
(* C6.  With all histories full, if two or more exchanges tie for the      *)
(* maximum net change, the leadership result of the cycle is               *)
(* "Undetermined" (so no lead count is incremented in it).                 *)
(***************************************************************************)
C6_TieIsUndetermined ==
    (Evaluated /\ AllFull(history) /\ TiedForMax(history)) =>
        leader = "Undetermined"

C8_Tallies ==
    [][/\ total_checks' =
              IF CompleteCycle THEN total_checks + 1 ELSE total_checks
       /\ \A e \in Exchanges :
              lead_count'[e] =
                  IF CompleteCycle /\ leader' = e
                  THEN lead_count[e] + 1
                  ELSE lead_count[e]
       /\ CompleteCycle => leader' \in Exchanges \cup {"Undetermined"}
       /\ total_checks' >= total_checks
       /\ \A e \in Exchanges : lead_count'[e] >= lead_count[e]]_vars

\* A run with a cycle that named Coinbase the leader, a complete cycle that
\* named none, and an incomplete cycle.
C8_Witness ==
    /\ pc = "fetch"
    /\ lead_count["Coinbase"] = 1
    /\ lead_count["Binance"] = 0
    /\ lead_count["Bybit"] = 0
    /\ total_checks = 2
    /\ cycle = 3

(***************************************************************************)
(* C9.  In every complete cycle at most one arbitrage opportunity is       *)
(* reported and appended to the opportunity log: the pairs are examined    *)
(* in the order Binance-Bybit, Binance-Coinbase, Bybit-Coinbase, the       *)
(* reported pair is the first whose absolute divergence strictly exceeds   *)
(* ARBITRAGE_THRESHOLD, and nothing is reported or logged when no pair     *)
(* strictly exceeds it.                                                    *)
(***************************************************************************)
C9_FirstBreachingPair ==
    [][CompleteCycle =>
          IF \E i \in 1..Len(PairOrder) : Breaches(price, i)
          THEN LET i == CHOOSE k \in 1..Len(PairOrder) :
                            /\ Breaches(price, k)
                            /\ \A j \in 1..(k - 1) : ~Breaches(price, j)
               IN  /\ {arbitrage_opportunity'.buy, arbitrage_opportunity'.sell}
                          = {PairOrder[i][1], PairOrder[i][2]}
                   /\ log' = Append(log, arbitrage_opportunity')
          ELSE /\ arbitrage_opportunity' = NoOpportunity
               /\ log' = log]_vars

\* Binance-Bybit does not breach, the two later pairs both do, and the one
\* reported and logged is Binance-Coinbase.
C9_Witness ==
    /\ Evaluated
    /\ ~Breaches(price, 1)
    /\ Breaches(price, 2)
    /\ Breaches(price, 3)
    /\ {arbitrage_opportunity.buy, arbitrage_opportunity.sell}
           = {"Binance", "Coinbase"}
    /\ Len(log) > 0
    /\ log[Len(log)] = arbitrage_opportunity

(***************************************************************************)
(* C10.  Whenever an arbitrage opportunity is reported, the exchange named *)
(* as the buy side has the strictly lower current price of the two named   *)
(* and the exchange named as the sell side the strictly higher one.        *)
(***************************************************************************)
C10_BuyLowSellHigh ==
    (Evaluated /\ arbitrage_opportunity # NoOpportunity) =>
        /\ arbitrage_opportunity.buy \in Exchanges
        /\ arbitrage_opportunity.sell \in Exchanges
        /\ price[arbitrage_opportunity.buy][1]
               < price[arbitrage_opportunity.sell][1]

\* Binance above Bybit by more than the threshold: buy Bybit, sell Binance.
C10_Witness ==
    /\ Evaluated
    /\ price["Binance"][1] > price["Bybit"][1]
    /\ Breaches(price, 1)
    /\ arbitrage_opportunity = [buy |-> "Bybit", sell |-> "Binance"]

(***************************************************************************)
(* C11.  Every sample stored in a history buffer is a positive price: a    *)
(* fetch that yields no price or a non-positive value never results in an  *)
(* append.                                                                 *)
(***************************************************************************)
C11_SamplesArePositive ==
    \A e \in Exchanges : \A i \in 1..Len(history[e]) : history[e][i] > 0

(***************************************************************************)
(* Vocabulary for the signal functions                                     *)
(***************************************************************************)
\* Thresholds >= 0 as fractions: zero, TWAP_THRESHOLD, one, three halves.
Thresholds ==
    {[num |-> 0, den |-> 1], TWAP_THRESHOLD, [num |-> 1, den |-> 1],
     [num |-> 3, den |-> 2]}

\* Sample counts of detect_twap_pattern.
Periods == 2..MaxBuffer

AllEqual(s) == \A i, j \in 1..Len(s) : s[i] = s[j]

\* The signal functions have been applied to the buffers.
SignalsDone == pc \in {"done", "crashed"}

\* C12 as the specification words it: on a buffer whose prices are all equal
\* detect_twap_pattern returns true for every threshold >= 0, whatever the
\* length of the buffer.
C12_ConstantIsDetectedAtAnyLength ==
    \A e \in Exchanges : \A th \in Thresholds :
        (history[e] # <<>> /\ AllEqual(history[e]))
            => detect_twap_pattern(history[e], HISTORY_SIZE, th)

\* C12, amended: on a buffer whose prices are all equal detect_twap_pattern
\* returns true for every threshold >= 0 when the buffer holds at least the
\* sample count, and false when it holds fewer; the full engine, whose count
\* is HISTORY_SIZE, detects the pattern on a constant history exactly when
\* the history is full.
C12_ConstantIsDetectedOnceLongEnough ==
    \A e \in Exchanges :
        AllEqual(history[e]) =>
            /\ \A th \in Thresholds : \A period \in Periods :
                   detect_twap_pattern(history[e], period, th)
                       <=> Len(history[e]) >= period
            /\ SignalsDone =>
                   (twap_detected[e] <=> Len(history[e]) >= HISTORY_SIZE)

\* A constant buffer of at least the sample count, detected, and the same
\* function refusing a larger count on it.
C12_Witness ==
    /\ SignalsDone
    /\ \E e \in Exchanges :
          /\ AllEqual(history[e])
          /\ Len(history[e]) = HISTORY_SIZE
          /\ twap_detected[e]
          /\ detect_twap_pattern(history[e], HISTORY_SIZE, [num |-> 0, den |-> 1])
          /\ ~detect_twap_pattern(history[e], HISTORY_SIZE + 1, TWAP_THRESHOLD)

\* The positions of the samples within TWAP_PERIOD seconds of the newest.
InWindow(ts) == {i \in 1..Len(ts) : ts[i] >= ts[Len(ts)] - TWAP_PERIOD}

RECURSIVE SumOver(_, _)
SumOver(s, I) ==
    IF I = {}
    THEN 0
    ELSE LET i == CHOOSE j \in I : TRUE IN s[i] + SumOver(s, I \ {i})

\* C13: calculate_twap on a buffer of exactly one sample returns that
\* sample's price as the TWAP, with direction "Bid"; whenever a TWAP is
\* returned the direction is "Ask" if the newest price is strictly greater
\* than the TWAP (the mean of the samples in the window) and "Bid" otherwise,
\* equality included.
C13_SingleSampleAndDirection ==
    SignalsDone =>
        \A e \in Exchanges :
            LET h == history[e]
                W == InWindow(timestamps[e])
            IN  /\ Len(h) = 1 =>
                      /\ twap[e].kind = "ok"
                      /\ twap[e].num = h[1] * twap[e].den
                      /\ twap[e].direction = "Bid"
                /\ twap[e].kind = "ok" =>
                      /\ twap[e].direction \in {"Ask", "Bid"}
                      /\ twap[e].direction = "Ask"
                             <=> h[Len(h)] * Cardinality(W) > SumOver(h, W)

\* The TWAP of a one-sample buffer has been computed.
C13_Witness ==
    /\ pc = "done"
    /\ \E e \in Exchanges :
          /\ Len(history[e]) = 1
          /\ twap[e].kind = "ok"
          /\ twap[e].direction = "Bid"

\* C14: calculate_twap returns the undefined result (no TWAP, no direction)
\* without failing when no sample falls in the window, which is the case
\* exactly when the buffer is empty; on every non-empty buffer the window
\* holds at least the newest sample and a TWAP is returned.
C14_UndefinedWithoutFailing ==
    SignalsDone =>
        \A e \in Exchanges :
            /\ history[e] = <<>> => twap[e].kind = "None"
            /\ history[e] # <<>> =>
                  /\ twap[e].kind = "ok"
                  /\ Len(timestamps[e]) \in InWindow(timestamps[e])

InFlight == \E e \in Exchanges : tasks[e].state = "pending"

\* C16: cycles never overlap.  A fetch is in flight only while main waits in
\* asyncio.run; the fetches of the next cycle start only from the top of the
\* loop, with every coroutine of the previous cycle joined and its appends
\* and signals done; and no step taken while a fetch is in flight, or that
\* puts one in flight, changes a history, a timestamp history or a tally.
C16_CyclesNeverOverlap ==
    [][/\ InFlight => pc \in {"gather", "blocked"}
       /\ InFlight' => pc' \in {"gather", "blocked"}
       /\ cycle' # cycle =>
             /\ cycle' = cycle + 1
             /\ pc = "fetch"
             /\ \A e \in Exchanges : tasks[e] = NoTask
       /\ (InFlight \/ InFlight') =>
             /\ history' = history
             /\ timestamps' = timestamps
             /\ lead_count' = lead_count
             /\ total_checks' = total_checks]_vars

\* The second cycle's fetches are part answered, part in flight, after the
\* first cycle has appended and counted.
C16_Witness ==
    /\ cycle = 2
    /\ pc = "gather"
    /\ \E e \in Exchanges : tasks[e].state = "pending"
    /\ \E e \in Exchanges : tasks[e].state = "returned"
    /\ total_checks = 1
    /\ \A e \in Exchanges : Len(history[e]) = 1

NonDecreasing(s) == \A i, j \in 1..Len(s) : i <= j => s[i] <= s[j]

\* C17: with a clock that does not go backwards, each exchange's timestamp
\* history is non-decreasing from oldest to newest (and no newer than the
\* last reading of the clock) after any sequence of cycles, evictions and
\* cycles that skipped the exchange included.
C17_TimestampsNonDecreasing ==
    \A e \in Exchanges :
        /\ NonDecreasing(timestamps[e])
        /\ Len(timestamps[e]) <= HISTORY_SIZE
        /\ timestamps[e] # <<>> =>
               timestamps[e][Len(timestamps[e])] <= current_time

\* One exchange has had its oldest timestamp evicted, another was skipped
\* in the second cycle and holds the first and the third reading.
C17_Witness ==
    /\ cycle = MaxClockCycles
    /\ pc = "fetch"
    /\ \E e \in Exchanges :
          /\ Len(appended[e]) > HISTORY_SIZE
          /\ Len(timestamps[e]) = HISTORY_SIZE
    /\ \E e \in Exchanges :
          /\ Len(appended[e]) = 2
          /\ timestamps[e][1] < timestamps[e][2]
          /\ \E f \in Exchanges :
                \E i \in 1..Len(timestamps[f]) :
                    /\ timestamps[e][1] <= timestamps[f][i]
                    /\ timestamps[f][i] < timestamps[e][2]
                    /\ \A j \in 1..2 : timestamps[e][j] # timestamps[f][i]

\* The net change of e is strictly positive and strictly greater than that
\* of every other exchange.
UniquePositiveMax(h, e) ==
    /\ net_change(h[e]) > 0
    /\ \A f \in Exchanges \ {e} : net_change(h[f]) < net_change(h[e])

\* C18: with all histories full and a unique, strictly positive maximum net
\* change (newest price minus oldest price of the history), determine_leader
\* returns exactly the exchange that attains it, and that is the leader the
\* cycle records.
C18_UniqueMaxLeads ==
    AllFull(history) =>
        \A e \in Exchanges :
            UniquePositiveMax(history, e) =>
                /\ determine_leader(history) = e
                /\ Evaluated => leader = e

\* A cycle has named as leader the only exchange whose price rose, and it is
\* not the first of the three.
C18_Witness ==
    /\ Evaluated
    /\ AllFull(history)
    /\ \E e \in Exchanges \ {ExchangeOrder[1]} :
          /\ UniquePositiveMax(history, e)
          /\ leader = e
          /\ lead_count[e] > 0

\* The sum of the absolute changes between consecutive entries of s.
RECURSIVE SumAbsChanges(_)
SumAbsChanges(s) ==
    IF Len(s) < 2
    THEN 0
    ELSE Abs(s[2] - s[1]) + SumAbsChanges(Tail(s))

\* The mean absolute change between consecutive prices among the n most
\* recent of s is <= the fraction th (there are n - 1 changes).
MeanAbsChangeWithin(s, n, th) ==
    SumAbsChanges(LastN(s, n)) * th.den <= th.num * (n - 1)

\* C19: detect_twap_pattern reports "not detected" whenever the buffer holds
\* fewer samples than the sample count; otherwise it reports "detected"
\* exactly when the mean absolute change between consecutive prices among
\* the most recent sample-count prices is <= the threshold.  The engine
\* passes HISTORY_SIZE and TWAP_THRESHOLD, so it detects a pattern only on a
\* history that holds HISTORY_SIZE samples.
C19_DetectedIffSmallMeanChange ==
    \A e \in Exchanges :
        /\ \A period \in Periods : \A th \in Thresholds :
               detect_twap_pattern(history[e], period, th)
                   <=> /\ Len(history[e]) >= period
                       /\ MeanAbsChangeWithin(history[e], period, th)
        /\ SignalsDone =>
               /\ twap_detected[e]
                      <=> /\ Len(history[e]) >= HISTORY_SIZE
                          /\ MeanAbsChangeWithin(history[e], HISTORY_SIZE,
                                                 TWAP_THRESHOLD)
               /\ twap_detected[e] => Len(history[e]) >= HISTORY_SIZE

\* A pattern is detected on a buffer longer than the sample count whose
\* older prices moved while its most recent ones did not.
C19_Witness ==
    /\ pc = "done"
    /\ \E e \in Exchanges :
          /\ Len(history[e]) > HISTORY_SIZE
          /\ ~AllEqual(history[e])
          /\ twap_detected[e]
          /\ ~detect_twap_pattern(history[e], Len(history[e]), TWAP_THRESHOLD)

\* C20: for positive current prices pA and pB the divergence computed for
\* the pair (A, B) is (pA - pB) / pB * 100, normalised by the price of the
\* second exchange of the pair for each of the three pairs: positive exactly
\* when pA > pB, zero exactly when pA = pB, negative exactly when pA < pB,
\* and of the sign opposite to that of the divergence of (B, A), of which it
\* is not the negation unless both are zero.
C20_DivergenceFormulaAndSign ==
    Evaluated =>
        \A i \in 1..Len(PairOrder) :
            LET pA == price[PairOrder[i][1]][1]
                pB == price[PairOrder[i][2]][1]
                d == differences[i]
                r == difference_percentage(pB, pA)
            IN  /\ d.den > 0
                /\ d.num * pB = (pA - pB) * PERCENT * d.den
                /\ d.num > 0 <=> pA > pB
                /\ d.num = 0 <=> pA = pB
                /\ d.num < 0 <=> pA < pB
                /\ r.den > 0
                /\ d.num > 0 <=> r.num < 0
                /\ d.num < 0 <=> r.num > 0
                /\ pA # pB => d.num * r.den # (0 - r.num) * d.den

\* A cycle with a positive, a zero and a negative divergence.
C20_Witness ==
    /\ Evaluated
    /\ price["Binance"][1] > price["Bybit"][1]
    /\ price["Binance"][1] = price["Coinbase"][1]
    /\ differences[1].num > 0
    /\ differences[2].num = 0
    /\ differences[3].num < 0

\* C21: in the poll loop the leadership, TWAP, pattern-detection and
\* order-size computations run only in a cycle that has just appended a
\* price to every history: after such a cycle every history is non-empty and
\* ends with that cycle's price, every TWAP is defined, no cycle ends with
\* the IndexError of an empty buffer, and before the first such cycle none
\* of the computed values has been assigned.
C21_SignalsSeeNonEmptyHistories ==
    /\ failure.kind # "IndexError"
    /\ \A e \in Exchanges : twap[e].kind \in {"unassigned", "ok"}
    /\ Evaluated =>
          \A e \in Exchanges :
              /\ history[e] # <<>>
              /\ timestamps[e] # <<>>
              /\ history[e][Len(history[e])] = price[e][1]
              /\ twap[e].kind = "ok"
    /\ total_checks = 0 =>
          /\ leader = "Unassigned"
          /\ \A e \in Exchanges :
                /\ twap[e] = NoTwap
                /\ ~twap_detected[e]
                /\ twap_order_size[e] = None

\* The first cycle was complete: the signals were computed on histories of
\* one sample each.
C21_Witness ==
    /\ Evaluated
    /\ cycle = 1
    /\ total_checks = 1
    /\ \A e \in Exchanges :
          /\ Len(history[e]) = 1
          /\ twap[e].kind = "ok"
          /\ twap[e].direction = "Bid"

\* C22: in every reachable state each exchange's price history and timestamp
\* history have the same length, and they are the same window (the most
\* recent HISTORY_SIZE) of the prices appended for that exchange and of the
\* cycle times at which they were appended, so the i-th timestamp is the
\* cycle time of the i-th price; the samples appended in one cycle all carry
\* that cycle's one reading of the clock.
C22_PricesAndTimestampsInLockstep ==
    /\ \A e \in Exchanges :
          /\ Len(history[e]) = Len(timestamps[e])
          /\ Len(appended[e]) = Len(appended_at[e])
          /\ history[e] = LastN(appended[e], HISTORY_SIZE)
          /\ timestamps[e] = LastN(appended_at[e], HISTORY_SIZE)
    /\ (pc = "fetch" /\ cycle > 0) =>
          \A e \in Exchanges :
              price[e] # None =>
                  /\ timestamps[e] # <<>>
                  /\ timestamps[e][Len(timestamps[e])] = current_time
                  /\ history[e][Len(history[e])] = price[e][1]

\* After the last cycle one exchange has had a sample and its timestamp
\* evicted, and another, skipped in one cycle and appended to in the last,
\* holds fewer samples, each with its timestamp.
C22_Witness ==
    /\ pc = "fetch"
    /\ cycle = MaxClockCycles
    /\ \E e, f \in Exchanges :
          /\ Len(appended_at[e]) > HISTORY_SIZE
          /\ Len(timestamps[e]) = HISTORY_SIZE
          /\ price[f] # None
          /\ Len(appended_at[f]) = cycle - 1
          /\ Len(timestamps[f]) = Len(history[f])
          /\ timestamps[f] # timestamps[e]

\* The three lead counts together.
TotalLeads == SumOver(lead_count, Exchanges)

=========================================================================
